---------------------------- MODULE Spec2Model ----------------------------
(***************************************************************************)
(* A model of four components of amgcl:                                    *)
(*   - coarsening::aggregation  (amgcl/coarsening/aggregation.hpp)         *)
(*   - level::ViennaCL::instance (amgcl/level_viennacl.hpp)                *)
(*   - mpi::repartition::scotch (amgcl/mpi/repartition/scotch.hpp)         *)
(*   - solver::EigenSolver      (amgcl/solver/eigen.hpp)                   *)
(* Each component has its own specification over the shared variables; the *)
(* variables of the other components stay at their idle values.            *)
(***************************************************************************)
EXTENDS Integers, Sequences, FiniteSets, TLC

VARIABLES
    \* ---- coarsening::aggregation ----
    A,            \* the system matrix handed to the coarsener (CRS)
    aggr,         \* Aggregates: [count, id], id[i] \in -1 .. count-1
    over_interp,  \* params::over_interp
    P,            \* prolongation under construction / returned
    R,            \* restriction
    Ac,           \* what coarse_operator returned
    apc,          \* position inside transfer_operators / coarse_operator
    ai,           \* loop index i of transfer_operators
    \* ---- mpi::repartition::scotch, as run by one rank ----
    comm,         \* communicator: [size, rank]
    loc_rows,     \* A.loc_rows() of every rank, 0 .. size-1
    sprm,         \* scotch::params: [enable, min_per_proc, shrink_ratio]
    sc,           \* the rank's position and locals in is_needed / operator()
    \* ---- solver::EigenSolver ----
    eA,           \* the matrix handed to the constructor (CRS)
    en,           \* EigenSolver::n
    S,            \* EigenSolver::S, the wrapped Eigen solver: [info, mat]
    epc,          \* "none", "constructed", "applied", "aborted"
    ex,           \* the x written by operator()
    \* ---- level::ViennaCL::instance ----
    cprm,         \* level::params: [npre, npost, ncycle, kcycle]
    lvls,         \* the hierarchy, finest first: [A, P, R, Ainv, d] per level
    vec,          \* the mutable vectors of every level: [u, f, t, r, s, p, q]
                  \* (r, s, p, q are cg[0], cg[1], cg[2], cg[3])
    top_rhs,      \* the rhs handed to the outermost cycle call
    top_x0,       \* the x handed to the outermost cycle call, as it was then
    top_x,        \* that x, updated in place
    stack,        \* the active cycle / kcycle invocations, outermost first
    cpc,          \* "ready", "running", "done"
    log,          \* history: the vector operations performed so far
    ret           \* history: the invocation that returned last

aggVars == <<A, aggr, over_interp, P, R, Ac, apc, ai>>

scotchVars == <<comm, loc_rows, sprm, sc>>

eigenVars == <<eA, en, S, epc, ex>>

cycleVars == <<cprm, lvls, vec, top_rhs, top_x0, top_x, stack, cpc, log, ret>>

vars == <<aggVars, scotchVars, eigenVars, cycleVars>>

-----------------------------------------------------------------------------
(* value_type arithmetic: binary floating point, round to nearest even.    *)
(* A value is <<m, e>> and stands for m * 2^e.  Zero is <<0, 0>>; any other *)
(* finite value has 2^(Precision-1) <= |m| < 2^Precision and                *)
(* -MaxExp <= e <= MaxExp.  The exponent MaxExp + 1 holds the IEEE          *)
(* specials: <<0, e>> is NaN, <<1, e>> is +inf, <<-1, e>> is -inf.  A       *)
(* result below the smallest exponent is flushed to zero.                   *)

\* bits of the significand
Precision == 12

\* largest exponent
MaxExp == 99

ExpSpecial == MaxExp + 1

Abs(n) == IF n < 0 THEN -n ELSE n

Sgn(n) == IF n < 0 THEN -1 ELSE IF n > 0 THEN 1 ELSE 0

RECURSIVE Pow2(_)
Pow2(k) == IF k = 0 THEN 1 ELSE 2 * Pow2(k - 1)

RECURSIVE BitLen(_)
BitLen(a) == IF a = 0 THEN 0 ELSE 1 + BitLen(a \div 2)

NaN == <<0, ExpSpecial>>

Inf(sign) == <<sign, ExpSpecial>>

Zero == <<0, 0>>

IsNaN(x) == x = NaN

IsFinite(x) == x[2] # ExpSpecial

\* the value nearest to n * 2^e, n an integer
Round(n, e) ==
    IF n = 0 THEN Zero
    ELSE LET a  == Abs(n)
             k  == BitLen(a) - Precision
             q  == IF k <= 0 THEN a * Pow2(-k) ELSE a \div Pow2(k)
             rm == IF k <= 0 THEN 0 ELSE a % Pow2(k)
             hf == IF k <= 0 THEN 1 ELSE Pow2(k - 1)
             up == rm > hf \/ (rm = hf /\ q % 2 = 1)
             q1 == IF up THEN q + 1 ELSE q
             m  == IF q1 = Pow2(Precision) THEN Pow2(Precision - 1) ELSE q1
             xp == IF q1 = Pow2(Precision) THEN e + k + 1 ELSE e + k
         IN  IF xp > MaxExp THEN Inf(Sgn(n))
             ELSE IF xp < -MaxExp THEN Zero
             ELSE <<Sgn(n) * m, xp>>

IntF(n) == Round(n, 0)

One == IntF(1)

FNeg(x) == <<-x[1], x[2]>>

FAdd(x, y) ==
    IF IsNaN(x) \/ IsNaN(y) THEN NaN
    ELSE IF ~IsFinite(x) /\ ~IsFinite(y) THEN (IF x = y THEN x ELSE NaN)
    ELSE IF ~IsFinite(x) THEN x
    ELSE IF ~IsFinite(y) THEN y
    ELSE IF x[1] = 0 THEN y
    ELSE IF y[1] = 0 THEN x
    ELSE LET hi == IF x[2] >= y[2] THEN x ELSE y
             lo == IF x[2] >= y[2] THEN y ELSE x
             df == hi[2] - lo[2]
         IN  IF df > Precision + 1 THEN hi
             ELSE Round(hi[1] * Pow2(df) + lo[1], lo[2])

FSub(x, y) == FAdd(x, FNeg(y))

FMul(x, y) ==
    IF IsNaN(x) \/ IsNaN(y) THEN NaN
    ELSE IF ~IsFinite(x) \/ ~IsFinite(y)
         THEN (IF x[1] = 0 \/ y[1] = 0 THEN NaN ELSE Inf(Sgn(x[1]) * Sgn(y[1])))
    ELSE Round(x[1] * y[1], x[2] + y[2])

FDiv(x, y) ==
    IF IsNaN(x) \/ IsNaN(y) THEN NaN
    ELSE IF ~IsFinite(x) THEN (IF ~IsFinite(y) THEN NaN
                               ELSE Inf(Sgn(x[1]) * (IF y[1] < 0 THEN -1 ELSE 1)))
    ELSE IF ~IsFinite(y) THEN Zero
    ELSE IF y[1] = 0 THEN (IF x[1] = 0 THEN NaN ELSE Inf(Sgn(x[1])))
    ELSE IF x[1] = 0 THEN Zero
    ELSE LET num == Abs(x[1]) * Pow2(Precision + 2)
             q   == num \div Abs(y[1])
             st  == IF num % Abs(y[1]) = 0 THEN 0 ELSE 1
         IN  Round(Sgn(x[1]) * Sgn(y[1]) * (2 * q + st), x[2] - y[2] - Precision - 3)

RECURSIVE SumSeq(_)
SumSeq(s) == IF s = <<>> THEN Zero ELSE FAdd(Head(s), SumSeq(Tail(s)))

-----------------------------------------------------------------------------
(* backend::crs: [nrows, ncols, ptr, col, val].  Row and column numbers    *)
(* are 0-based as in the code; the sequences ptr, col and val are 1-based, *)
(* so the code's ptr[i] is ptr[i+1] here and its col[k] is col[k+1].       *)

EmptyMatrix == [nrows |-> 0, ncols |-> 0, ptr |-> <<>>, col |-> <<>>, val |-> <<>>]

rows(M) == M.nrows

cols(M) == M.ncols

nonzeros(M) == IF M.ptr = <<>> THEN 0 ELSE M.ptr[Len(M.ptr)]

\* the positions (1-based) of the stored entries of row i
RowRange(M, i) == (M.ptr[i + 1] + 1) .. M.ptr[i + 2]

RowNnz(M, i) == M.ptr[i + 2] - M.ptr[i + 1]

Stored(M, i, j) == \E k \in RowRange(M, i) : M.col[k] = j

RECURSIVE SumOver(_, _)
SumOver(M, ks) ==
    IF ks = {} THEN Zero
    ELSE LET k == CHOOSE k \in ks : TRUE
         IN  FAdd(M.val[k], SumOver(M, ks \ {k}))

\* the matrix entry M[i,j]: the sum of the stored coefficients at (i,j)
Entry(M, i, j) == SumOver(M, {k \in RowRange(M, i) : M.col[k] = j})

E(M, i, j) == IF Stored(M, i, j) THEN Entry(M, i, j) ELSE Zero


\* a CRS matrix from its pattern and coefficients, rows and columns ascending
RECURSIVE RowCols(_, _, _, _)
RowCols(present(_, _), i, j, nc) ==
    IF j = nc THEN <<>>
    ELSE (IF present(i, j) THEN <<j>> ELSE <<>>) \o RowCols(present, i, j + 1, nc)

RECURSIVE BuildRows(_, _, _, _, _, _)
BuildRows(M, present(_, _), value(_, _), i, nr, nc) ==
    IF i = nr THEN M
    ELSE LET cs == RowCols(present, i, 0, nc)
             M1 == [M EXCEPT !.col = @ \o cs,
                             !.val = @ \o [k \in 1 .. Len(cs) |-> value(i, cs[k])],
                             !.ptr = Append(@, Len(M.col) + Len(cs))]
         IN  BuildRows(M1, present, value, i + 1, nr, nc)

BuildCRS(nr, nc, present(_, _), value(_, _)) ==
    BuildRows([nrows |-> nr, ncols |-> nc, ptr |-> <<0>>, col |-> <<>>, val |-> <<>>],
              present, value, 0, nr, nc)

\* the n x n 1-D Poisson matrix (diagonal 2, off-diagonals -1)
Poisson(n) ==
    BuildCRS(n, n,
             LAMBDA i, j : Abs(i - j) <= 1,
             LAMBDA i, j : IF i = j THEN IntF(2) ELSE IntF(-1))

\* backend transpose: the first nonzeros(M) stored entries of M, regrouped by
\* column; within one row of the result the entries keep M's row order.
RowOf(M, k) == CHOOSE i \in 0 .. rows(M) - 1 : k \in RowRange(M, i)

RECURSIVE TransposeRows(_, _, _)
TransposeRows(M, T, c) ==
    IF c = cols(M) THEN T
    ELSE LET ks == SelectSeq([k \in 1 .. nonzeros(M) |-> k], LAMBDA k : M.col[k] = c)
             T1 == [T EXCEPT !.col = @ \o [x \in 1 .. Len(ks) |-> RowOf(M, ks[x])],
                             !.val = @ \o [x \in 1 .. Len(ks) |-> M.val[ks[x]]],
                             !.ptr = Append(@, Len(T.col) + Len(ks))]
         IN  TransposeRows(M, T1, c + 1)

transpose(M) ==
    TransposeRows(M, [nrows |-> cols(M), ncols |-> rows(M),
                      ptr |-> <<0>>, col |-> <<>>, val |-> <<>>], 0)

\* sparse product X*Y with symbolic fill: (i,j) is stored when some k has
\* X(i,k) and Y(k,j) stored
RECURSIVE DotOver(_, _, _, _, _)
DotOver(X, Y, i, j, ks) ==
    IF ks = {} THEN Zero
    ELSE LET k == CHOOSE k \in ks : TRUE
         IN  FAdd(FMul(Entry(X, i, k), Entry(Y, k, j)), DotOver(X, Y, i, j, ks \ {k}))

product(X, Y) ==
    BuildCRS(rows(X), cols(Y),
             LAMBDA i, j : \E k \in 0 .. cols(X) - 1 : Stored(X, i, k) /\ Stored(Y, k, j),
             LAMBDA i, j : DotOver(X, Y, i, j,
                 {k \in 0 .. cols(X) - 1 : Stored(X, i, k) /\ Stored(Y, k, j)}))

scale(M, s) == [M EXCEPT !.val = [k \in 1 .. Len(M.val) |-> FMul(s, M.val[k])]]

\* detail::scaled_galerkin(A, P, R, s) = s * (R * (A * P))
scaled_galerkin(mA, mP, mR, s) == scale(product(mR, product(mA, mP)), s)

-----------------------------------------------------------------------------
(* coarsening::aggregation                                                 *)

MaxRows == 3

MaxCount == 2

\* the over-interpolation factors tried: 0, 1, the default 1.5, and 2
OverInterpVals == {Zero, One, FDiv(IntF(3), IntF(2)), IntF(2)}

\* the variables of the other components
notAgg == <<scotchVars, eigenVars, cycleVars>>

\* line 125-126: one iteration of the loop that fills P's rows
PushRowNoCheck(M, a) ==
    LET c == Append(M.col, a)
    IN  [M EXCEPT !.col = c, !.ptr = Append(@, Len(c))]

PushRow(M, a) ==
    LET c == IF a >= 0 THEN Append(M.col, a) ELSE M.col
    IN  [M EXCEPT !.col = c, !.ptr = Append(@, Len(c))]

\* std::vector::resize(n, v): cut to n entries, or pad with v up to n
resize(s, n, v) == [k \in 1 .. n |-> IF k <= Len(s) THEN s[k] ELSE v]

\* line 128: P->val.resize(n, 1)
ValResizeZero(M, n) == [M EXCEPT !.val = resize(@, n, Zero)]

ValResize(M, n) == [M EXCEPT !.val = resize(@, n, One)]

AggInit ==
    /\ \E n \in 1 .. MaxRows : A = Poisson(n)
    /\ \E c \in 0 .. MaxCount :
         aggr \in {[count |-> c, id |-> f] : f \in [1 .. rows(A) -> -1 .. c - 1]}
    /\ over_interp \in OverInterpVals
    /\ P = EmptyMatrix
    /\ R = EmptyMatrix
    /\ Ac = EmptyMatrix
    /\ apc = "start"
    /\ ai = 0

\* lines 110-123
TransferBegin ==
    /\ apc = "start"
    /\ P' = [EmptyMatrix EXCEPT !.nrows = rows(A), !.ncols = aggr.count, !.ptr = <<0>>]
    /\ ai' = 0
    /\ apc' = "loop"
    /\ UNCHANGED <<A, aggr, over_interp, R, Ac>>
    /\ UNCHANGED notAgg

\* lines 124-127
TransferLoop ==
    /\ apc = "loop"
    /\ ai < rows(A)
    /\ P' = PushRow(P, aggr.id[ai + 1])
    /\ ai' = ai + 1
    /\ UNCHANGED <<A, aggr, over_interp, R, Ac, apc>>
    /\ UNCHANGED notAgg

\* line 128
TransferVal ==
    /\ apc = "loop"
    /\ ai = rows(A)
    /\ P' = ValResize(P, rows(A))
    /\ apc' = "transpose"
    /\ UNCHANGED <<A, aggr, over_interp, R, Ac, ai>>
    /\ UNCHANGED notAgg

\* lines 131-132
TransferTranspose ==
    /\ apc = "transpose"
    /\ R' = transpose(P)
    /\ apc' = "return"
    /\ UNCHANGED <<A, aggr, over_interp, P, Ac, ai>>
    /\ UNCHANGED notAgg

\* line 134
TransferReturn ==
    /\ apc = "return"
    /\ apc' = "coarse"
    /\ UNCHANGED <<A, aggr, over_interp, P, R, Ac, ai>>
    /\ UNCHANGED notAgg

\* line 153: 1 / prm.over_interp is a floating-point division; there is no
\* check of over_interp before or after it
CoarseOperator ==
    /\ apc = "coarse"
    /\ Ac' = scaled_galerkin(A, P, R, FDiv(One, over_interp))
    /\ apc' = "done"
    /\ UNCHANGED <<A, aggr, over_interp, P, R, ai>>
    /\ UNCHANGED notAgg

AggNext ==
    \/ TransferBegin
    \/ TransferLoop
    \/ TransferVal
    \/ TransferTranspose
    \/ TransferReturn
    \/ CoarseOperator

InAggOutput(pcs) == apc \in pcs

\* C1: once transfer_operators has filled P, P has n rows and count columns,
\* row i of P has exactly one stored nonzero, of value 1, at column id[i] when
\* id[i] >= 0, and no stored nonzero when id[i] = -1.
C1_ProlongationInjection ==
    InAggOutput({"transpose", "return", "coarse", "done"}) =>
        /\ rows(P) = rows(A)
        /\ cols(P) = aggr.count
        /\ Len(P.ptr) = rows(A) + 1
        /\ \A i \in 0 .. rows(A) - 1 :
             IF aggr.id[i + 1] >= 0
             THEN /\ RowNnz(P, i) = 1
                  /\ P.col[P.ptr[i + 1] + 1] = aggr.id[i + 1]
                  /\ P.val[P.ptr[i + 1] + 1] = One
             ELSE RowNnz(P, i) = 0

\* C1 witness: P was built from an assignment that has both an aggregated
\* row and a sentinel row.
C1_Witness ==
    /\ apc = "done"
    /\ \E i \in 1 .. rows(A) : aggr.id[i] = -1
    /\ \E i \in 1 .. rows(A) : aggr.id[i] >= 0

\* C2: the returned R has count rows and n columns, R[a,i] = 1 exactly when
\* id[i] = a, R stores nothing else, and R[a,i] = P[i,a] for every a and i.
C2_RestrictionIsTranspose ==
    InAggOutput({"return", "coarse", "done"}) =>
        /\ rows(R) = aggr.count
        /\ cols(R) = rows(A)
        /\ Len(R.ptr) = aggr.count + 1
        /\ Len(R.col) = nonzeros(R)
        /\ Len(R.val) = nonzeros(R)
        /\ nonzeros(R) = Cardinality({i \in 1 .. rows(A) : aggr.id[i] >= 0})
        /\ \A a \in 0 .. aggr.count - 1 : \A i \in 0 .. rows(A) - 1 :
             /\ Stored(R, a, i) <=> aggr.id[i + 1] = a
             /\ Entry(R, a, i) = (IF aggr.id[i + 1] = a THEN One ELSE Zero)
             /\ Stored(R, a, i) <=> Stored(P, i, a)
             /\ Entry(R, a, i) = Entry(P, i, a)

\* C2 witness: R was returned for an assignment with a sentinel row and an
\* aggregate of two rows.
C2_Witness ==
    /\ apc = "done"
    /\ \E i \in 1 .. rows(A) : aggr.id[i] = -1
    /\ \E i, j \in 1 .. rows(A) : i # j /\ aggr.id[i] >= 0 /\ aggr.id[i] = aggr.id[j]

\* C11: the P that transfer_operators returns keeps the storage invariant of
\* a sparse matrix: ptr has n+1 non-decreasing entries starting at 0,
\* ptr[i+1] - ptr[i] is the number of nonzeros of row i (one when id[i] >= 0,
\* none for a sentinel row), and col and val both have exactly ptr[n] entries.
C11_StorageInvariant ==
    InAggOutput({"return", "coarse", "done"}) =>
        /\ Len(P.ptr) = rows(P) + 1
        /\ P.ptr[1] = 0
        /\ \A i \in 0 .. rows(P) - 1 :
             /\ P.ptr[i + 1] <= P.ptr[i + 2]
             /\ RowNnz(P, i) = (IF aggr.id[i + 1] >= 0 THEN 1 ELSE 0)
        /\ Len(P.col) = P.ptr[rows(P) + 1]
        /\ Len(P.val) = P.ptr[rows(P) + 1]

\* C11 witness: P was returned for an assignment with a sentinel row, so val
\* is longer than col.
C11_Witness ==
    /\ apc = "done"
    /\ \E i \in 1 .. rows(A) : aggr.id[i] = -1
    /\ Len(P.val) > Len(P.col)

\* C9: coarse_operator never returns a coarse matrix when over_interp is 0.
C9_ZeroOverInterpNeverReturns ==
    apc = "done" => over_interp # Zero

-----------------------------------------------------------------------------
(* mpi::repartition::scotch                                                *)

MaxRanks == 3

MaxLocRows == 2

MaxMinPerProc == 2

MaxShrink == 3

\* std::numeric_limits<ptrdiff_t>::max(), the start value of min_n: a value
\* above every row count (here 2^31 - 1, the largest integer TLC represents)
PtrdiffMax == 2147483647

notScotch == <<aggVars, eigenVars, cycleVars>>

Max(a, b) == IF a >= b THEN a ELSE b

Min(a, b) == IF a <= b THEN a ELSE b

RECURSIVE SumTo(_, _)
SumTo(f, r) == IF r = 0 THEN 0 ELSE f[r - 1] + SumTo(f, r - 1)

\* mpi::exclusive_sum(comm, n): row_dom[r] is the number of rows owned by the
\* ranks below r, for r in 0 .. size (a 1-based sequence of size+1 entries)
exclusive_sum(size, n) == [k \in 1 .. size + 1 |-> SumTo(n, k - 1)]

\* MPI_Allreduce(&active, &active_ranks, 1, MPI_INT, MPI_SUM, comm)
AllreduceActive(size, n) == SumTo([r \in 0 .. size - 1 |-> IF n[r] > 0 THEN 1 ELSE 0], size)

glob_rows == SumTo(loc_rows, comm.size)

\* line 102
IsNeededResultStrict(ne, mn) == (ne > 1) /\ (mn < sprm.min_per_proc)

IsNeededResult(ne, mn) == (ne > 1) /\ (mn <= sprm.min_per_proc)

\* line 115
NPartNoMax(active) == active \div sprm.shrink_ratio

NPart(active) == Max(1, active \div sprm.shrink_ratio)

\* the partitions the graph partitioner is taken to return for N global rows
PartChoices(N, np) ==
    {[g \in 0 .. N - 1 |-> (g + sh) % np] : sh \in 0 .. np - 1} \cup {[g \in 0 .. N - 1 |-> 0]}

\* repartition::graph_perm_index: rows are renumbered partition by partition,
\* inside a partition rank by rank, inside a rank in local order; rank r then
\* owns the rows of partition r (none when r >= npart)
GloPartBeg(gp, N, p) == Cardinality({g \in 0 .. N - 1 : gp[g] < p})

graph_perm_index(gp, N, np, rd, rk) ==
    LET n   == rd[rk + 2] - rd[rk + 1]
        beg == rd[rk + 1]
        prm == [i \in 1 .. n |->
                  LET q == gp[beg + i - 1]
                  IN  GloPartBeg(gp, N, q)
                      + Cardinality({g \in 0 .. beg + i - 2 : gp[g] = q})]
    IN  [col_beg |-> GloPartBeg(gp, N, Min(np, rk)),
         col_end |-> GloPartBeg(gp, N, Min(np, rk + 1)),
         perm    |-> prm]

ScotchIdle ==
    [pc |-> "idle", row_dom |-> <<>>, non_empty |-> 0, min_n |-> 0, i |-> 0,
     needed |-> FALSE, n |-> 0, row_beg |-> 0, active_ranks |-> 0, npart |-> 0,
     perm |-> <<>>, col_beg |-> 0, col_end |-> 0, graph_built |-> FALSE,
     part_calls |-> 0]

ScotchInit ==
    /\ \E size \in 1 .. MaxRanks :
         /\ comm \in {[size |-> size, rank |-> r] : r \in 0 .. size - 1}
         /\ loc_rows \in [0 .. size - 1 -> 0 .. MaxLocRows]
    /\ sprm \in [enable : BOOLEAN, min_per_proc : 1 .. MaxMinPerProc,
                 shrink_ratio : 1 .. MaxShrink]
    /\ sc = ScotchIdle

\* line 86
IsNeededDisabled ==
    /\ sc.pc = "idle"
    /\ ~sprm.enable
    /\ sc' = [sc EXCEPT !.needed = FALSE, !.pc = "decided"]
    /\ UNCHANGED <<comm, loc_rows, sprm>>
    /\ UNCHANGED notScotch

\* lines 88-93
IsNeededBegin ==
    /\ sc.pc = "idle"
    /\ sprm.enable
    /\ sc' = [sc EXCEPT !.n = loc_rows[comm.rank],
                        !.row_dom = exclusive_sum(comm.size, loc_rows),
                        !.non_empty = 0,
                        !.min_n = PtrdiffMax,
                        !.i = 0,
                        !.pc = "is_needed_loop"]
    /\ UNCHANGED <<comm, loc_rows, sprm>>
    /\ UNCHANGED notScotch

\* lines 94-100
IsNeededLoop ==
    /\ sc.pc = "is_needed_loop"
    /\ sc.i < comm.size
    /\ LET m == sc.row_dom[sc.i + 2] - sc.row_dom[sc.i + 1]
       IN  sc' = [sc EXCEPT !.min_n = IF m # 0 THEN Min(@, m) ELSE @,
                            !.non_empty = IF m # 0 THEN @ + 1 ELSE @,
                            !.i = @ + 1]
    /\ UNCHANGED <<comm, loc_rows, sprm>>
    /\ UNCHANGED notScotch

\* line 102
IsNeededReturn ==
    /\ sc.pc = "is_needed_loop"
    /\ sc.i = comm.size
    /\ sc' = [sc EXCEPT !.needed = IsNeededResult(sc.non_empty, sc.min_n),
                        !.pc = "decided"]
    /\ UNCHANGED <<comm, loc_rows, sprm>>
    /\ UNCHANGED notScotch

\* lines 106-121
RepartBegin ==
    /\ sc.pc = "decided"
    /\ LET act == AllreduceActive(comm.size, loc_rows)
       IN  sc' = [sc EXCEPT !.n = loc_rows[comm.rank],
                            !.row_beg = SumTo(loc_rows, comm.rank),
                            !.active_ranks = act,
                            !.npart = NPart(act),
                            !.perm = [k \in 1 .. loc_rows[comm.rank] |-> 0],
                            !.pc = "branch"]
    /\ UNCHANGED <<comm, loc_rows, sprm>>
    /\ UNCHANGED notScotch

\* lines 123-125
RepartGatherRange ==
    /\ sc.pc = "branch"
    /\ sc.npart = 1
    /\ sc' = [sc EXCEPT !.col_beg = IF comm.rank = 0 THEN 0 ELSE glob_rows,
                        !.col_end = glob_rows,
                        !.i = 0,
                        !.pc = "gather_loop"]
    /\ UNCHANGED <<comm, loc_rows, sprm>>
    /\ UNCHANGED notScotch

\* lines 127-129
RepartGatherLoop ==
    /\ sc.pc = "gather_loop"
    /\ sc.i < sc.n
    /\ sc' = [sc EXCEPT !.perm[sc.i + 1] = sc.row_beg + sc.i, !.i = @ + 1]
    /\ UNCHANGED <<comm, loc_rows, sprm>>
    /\ UNCHANGED notScotch

RepartGatherEnd ==
    /\ sc.pc = "gather_loop"
    /\ sc.i = sc.n
    /\ sc' = [sc EXCEPT !.pc = "perm_matrix"]
    /\ UNCHANGED <<comm, loc_rows, sprm>>
    /\ UNCHANGED notScotch

\* lines 131-163 with every SCOTCH call returning 0
RepartGraph ==
    /\ sc.pc = "branch"
    /\ sc.npart # 1
    /\ \E gp \in PartChoices(glob_rows, sc.npart) :
         LET res == graph_perm_index(gp, glob_rows, sc.npart,
                                     exclusive_sum(comm.size, loc_rows), comm.rank)
         IN  sc' = [sc EXCEPT !.graph_built = TRUE,
                              !.part_calls = @ + 1,
                              !.perm = res.perm,
                              !.col_beg = res.col_beg,
                              !.col_end = res.col_end,
                              !.pc = "perm_matrix"]
    /\ UNCHANGED <<comm, loc_rows, sprm>>
    /\ UNCHANGED notScotch

\* lines 131-158, 169-171: a SCOTCH call returns a nonzero code and check()
\* fails the precondition
RepartGraphError ==
    /\ sc.pc = "branch"
    /\ sc.npart # 1
    /\ \E called \in {0, 1} :
         sc' = [sc EXCEPT !.graph_built = TRUE,
                          !.part_calls = @ + called,
                          !.pc = "error"]
    /\ UNCHANGED <<comm, loc_rows, sprm>>
    /\ UNCHANGED notScotch

\* line 166
RepartReturn ==
    /\ sc.pc = "perm_matrix"
    /\ sc' = [sc EXCEPT !.pc = "done"]
    /\ UNCHANGED <<comm, loc_rows, sprm>>
    /\ UNCHANGED notScotch

ScotchNext ==
    \/ IsNeededDisabled
    \/ IsNeededBegin
    \/ IsNeededLoop
    \/ IsNeededReturn
    \/ RepartBegin
    \/ RepartGatherRange
    \/ RepartGatherLoop
    \/ RepartGatherEnd
    \/ RepartGraph
    \/ RepartGraphError
    \/ RepartReturn

NonEmptyRanks == {r \in 0 .. comm.size - 1 : loc_rows[r] > 0}

\* C7: is_needed returns true exactly when repartitioning is enabled, more
\* than one rank owns a row, and the smallest nonzero local row count is at
\* most min_per_proc; it returns false when enable is false and when there is
\* one rank only.
C7_IsNeededExact ==
    sc.pc \notin {"idle", "is_needed_loop"} =>
        /\ sc.needed <=>
             /\ sprm.enable
             /\ Cardinality(NonEmptyRanks) > 1
             /\ \E r \in NonEmptyRanks :
                  /\ \A q \in NonEmptyRanks : loc_rows[r] <= loc_rows[q]
                  /\ loc_rows[r] <= sprm.min_per_proc
        /\ ~sprm.enable => ~sc.needed
        /\ comm.size = 1 => ~sc.needed

\* C7 witness: is_needed returned true with the smallest nonzero row count
\* exactly at the threshold.
C7_Witness ==
    /\ sc.pc = "decided"
    /\ sc.needed
    /\ \A r \in NonEmptyRanks : loc_rows[r] >= sprm.min_per_proc

\* the target partition count max(1, active_ranks / shrink_ratio) is 1
TargetIsOne == Cardinality(NonEmptyRanks) < 2 * sprm.shrink_ratio

\* C8: when the target partition count is 1, no graph is built, the
\* partitioner is never invoked, rank 0 gets the range [0, N), every other
\* rank gets an empty range, and local row i keeps the index row_beg + i.
C8_GatherWhenOnePart ==
    TargetIsOne =>
        /\ ~sc.graph_built
        /\ sc.part_calls = 0
        /\ sc.pc # "error"
        /\ sc.pc \in {"perm_matrix", "done"} =>
             /\ sc.col_beg = (IF comm.rank = 0 THEN 0 ELSE glob_rows)
             /\ sc.col_end = glob_rows
             /\ comm.rank # 0 => sc.col_beg = sc.col_end
             /\ Len(sc.perm) = loc_rows[comm.rank]
             /\ \A k \in 0 .. loc_rows[comm.rank] - 1 :
                  sc.perm[k + 1] = SumTo(loc_rows, comm.rank) + k

\* C8 witness: the gather has run to its end on a rank other than 0 that owns
\* rows, with at least two active ranks.
C8_Witness ==
    /\ sc.pc = "done"
    /\ TargetIsOne
    /\ comm.rank > 0
    /\ loc_rows[comm.rank] > 0
    /\ Cardinality(NonEmptyRanks) > 1

-----------------------------------------------------------------------------
(* solver::EigenSolver                                                     *)

MaxEigenRows == 2

MaxEigenVal == 1

notEigen == <<aggVars, scotchVars, cycleVars>>

\* determinant of a 1x1 or 2x2 matrix
Det(M) ==
    IF rows(M) = 1 THEN E(M, 0, 0)
    ELSE FSub(FMul(E(M, 0, 0), E(M, 1, 1)), FMul(E(M, 0, 1), E(M, 1, 0)))

\* Solver::compute: the factorization succeeds exactly on a non-singular
\* matrix; a failure is recorded in info() and nothing is thrown
compute(M) ==
    [info |-> IF Det(M) # Zero THEN "Success" ELSE "NumericalIssue", mat |-> M]

\* Solver::solve after a successful compute: the solution of mat * x = rhs
solve(M, rhs) ==
    IF rows(M) = 1 THEN <<FDiv(rhs[1], E(M, 0, 0))>>
    ELSE << FDiv(FSub(FMul(rhs[1], E(M, 1, 1)), FMul(E(M, 0, 1), rhs[2])), Det(M)),
            FDiv(FSub(FMul(E(M, 0, 0), rhs[2]), FMul(rhs[1], E(M, 1, 0))), Det(M)) >>

\* Solver::solve after a failed compute is outside Eigen's contract: a build
\* with eigen_assert active aborts, another one writes whatever the unfinished
\* factorization yields
SolveOutcomes(sv, rhs, n) ==
    IF sv.info = "Success"
    THEN {[pc |-> "applied", x |-> solve(sv.mat, rhs)]}
    ELSE {[pc |-> "aborted", x |-> <<>>]}
         \cup {[pc |-> "applied", x |-> [k \in 1 .. n |-> v]] : v \in {NaN, Zero, Inf(1)}}

EigenMatrices ==
    UNION {
        {BuildCRS(n, n, LAMBDA i, j : f[i][j] # 0, LAMBDA i, j : IntF(f[i][j])) :
            f \in [0 .. n - 1 -> [0 .. n - 1 -> -MaxEigenVal .. MaxEigenVal]]} :
        n \in 1 .. MaxEigenRows}

EigenInit ==
    /\ eA \in EigenMatrices
    /\ en = 0
    /\ S = [info |-> "none", mat |-> EmptyMatrix]
    /\ epc = "none"
    /\ ex = <<>>

\* lines 54-68: n is set and S.compute is called; S.info() is not read
EigenSolverCtor ==
    /\ epc = "none"
    /\ en' = rows(eA)
    /\ S' = compute(eA)
    /\ epc' = "constructed"
    /\ UNCHANGED <<eA, ex>>
    /\ UNCHANGED notEigen

\* lines 70-76: X = S.solve(RHS)
EigenSolverApply ==
    /\ epc \in {"constructed", "applied"}
    /\ \E rhs \in [1 .. en -> {IntF(v) : v \in -MaxEigenVal .. MaxEigenVal}] :
         \E o \in SolveOutcomes(S, rhs, en) :
            /\ ex' = o.x
            /\ epc' = o.pc
    /\ UNCHANGED <<eA, en, S>>
    /\ UNCHANGED notEigen

EigenNext ==
    \/ EigenSolverCtor
    \/ EigenSolverApply

\* C10: a singular matrix never yields a constructed solver, so operator() is
\* never applied to a solver built from one.
C10_SingularNeverConstructs ==
    epc # "none" => Det(eA) # Zero

-----------------------------------------------------------------------------
(* level::ViennaCL::instance                                               *)

MaxLevels == 3

MaxRelax == 1

MaxNcycle == 2

MaxKcycle == 2

notCycle == <<aggVars, scotchVars, eigenVars>>

\* the damping factor of relax, line 143
Omega == FDiv(IntF(18), IntF(25))

\* viennacl::vector<value_t>(n): n zeros; a vector never sized is <<>>
Zeros(n) == [k \in 1 .. n |-> Zero]

VAdd(v, w) == [k \in 1 .. Len(v) |-> FAdd(v[k], w[k])]

VSub(v, w) == [k \in 1 .. Len(v) |-> FSub(v[k], w[k])]

VScale(c, v) == [k \in 1 .. Len(v) |-> FMul(c, v[k])]

element_div(v, w) == [k \in 1 .. Len(v) |-> FDiv(v[k], w[k])]

RECURSIVE FoldAdd(_, _)
FoldAdd(s, k) == IF k = 0 THEN Zero ELSE FAdd(FoldAdd(s, k - 1), s[k])

inner_prod(v, w) == FoldAdd([k \in 1 .. Len(v) |-> FMul(v[k], w[k])], Len(v))

\* viennacl::linalg::prod(M, v): row by row, over the stored entries only
prod(M, v) ==
    [i \in 1 .. rows(M) |->
        FoldAdd([k \in 1 .. RowNnz(M, i - 1) |->
                    FMul(M.val[M.ptr[i] + k], v[M.col[M.ptr[i] + k] + 1])],
                RowNnz(M, i - 1))]

diagonal(M) == [i \in 1 .. rows(M) |-> E(M, i - 1, i - 1)]

\* lines 99-120: the members of a level built from (a, p, r)
instance(a, p, r) == [A |-> a, P |-> p, R |-> r, Ainv |-> EmptyMatrix, d |-> diagonal(a)]

\* lines 100, 108-115: its vectors; u, f only below the finest level, the
\* four K-cycle vectors only where nlevel is a multiple of kcycle
instance_vectors_any_level(a, prm, nlevel) ==
    LET kc == nlevel # 0 /\ prm.kcycle # 0
        w  == IF nlevel # 0 THEN Zeros(rows(a)) ELSE <<>>
        c  == IF kc THEN Zeros(rows(a)) ELSE <<>>
    IN  [u |-> w, f |-> w, t |-> Zeros(rows(a)), r |-> c, s |-> c, p |-> c, q |-> c]

instance_vectors_cg_everywhere(a, prm, nlevel) ==
    LET w == IF nlevel # 0 THEN Zeros(rows(a)) ELSE <<>>
    IN  [u |-> w, f |-> w, t |-> Zeros(rows(a)), r |-> w, s |-> w, p |-> w, q |-> w]

instance_vectors(a, prm, nlevel) ==
    LET kc == nlevel # 0 /\ prm.kcycle # 0 /\ nlevel % prm.kcycle = 0
        w  == IF nlevel # 0 THEN Zeros(rows(a)) ELSE <<>>
        c  == IF kc THEN Zeros(rows(a)) ELSE <<>>
    IN  [u |-> w, f |-> w, t |-> Zeros(rows(a)), r |-> c, s |-> c, p |-> c, q |-> c]

\* lines 124-134: the coarsest level, built from (a, ai)
coarsest_instance(a, ainv) ==
    [A |-> a, P |-> EmptyMatrix, R |-> EmptyMatrix, Ainv |-> ainv, d |-> diagonal(a)]

\* line 125: the K-cycle vectors of the coarsest level are never sized
coarsest_vectors(a) ==
    [u |-> Zeros(rows(a)), f |-> Zeros(rows(a)), t |-> Zeros(rows(a)),
     r |-> <<>>, s |-> <<>>, p |-> <<>>, q |-> <<>>]

\* aggregation.hpp lines 117-128 as one function of the assignment
RECURSIVE FillRows(_, _, _)
FillRows(M, id, i) == IF i = Len(id) THEN M ELSE FillRows(PushRow(M, id[i + 1]), id, i + 1)

prolongation(n, ag) ==
    ValResize(FillRows([EmptyMatrix EXCEPT !.nrows = n, !.ncols = ag.count, !.ptr = <<0>>],
                       ag.id, 0), n)

\* the aggregates used to build the hierarchies: the first two rows form
\* aggregate 0, every later row i is aggregate i-1 on its own
PairFirst(n) == [count |-> n - 1, id |-> [i \in 1 .. n |-> IF i = 1 THEN 0 ELSE i - 2]]

\* the inverse of the coarsest matrix (1x1 or 2x2), column by column
inverse(M) ==
    BuildCRS(rows(M), rows(M),
             LAMBDA i, j : TRUE,
             LAMBDA i, j : solve(M, [k \in 1 .. rows(M) |-> IF k = j + 1 THEN One ELSE Zero])[i + 1])

\* the hierarchy of nl levels on top of the matrix a, as the setup builds
\* it: aggregate, P and R, coarse operator (over_interp = 1), next level
RECURSIVE BuildLevels(_, _, _)
BuildLevels(a, k, nl) ==
    IF k = nl - 1 THEN <<coarsest_instance(a, inverse(a))>>
    ELSE LET pp == prolongation(rows(a), PairFirst(rows(a)))
             rr == transpose(pp)
         IN  <<instance(a, pp, rr)>>
             \o BuildLevels(scaled_galerkin(a, pp, rr, FDiv(One, One)), k + 1, nl)

BuildVectors(ls, prm) ==
    [k \in 1 .. Len(ls) |->
        IF k = Len(ls) THEN coarsest_vectors(ls[k].A)
        ELSE instance_vectors(ls[k].A, prm, k - 1)]

NLevels == Len(lvls)

n_of(k) == rows(lvls[k + 1].A)

\* the right-hand sides and starting vectors tried
StartVectors(n) == [1 .. n -> {Zero, One}]

RhsVectors(n, x0, a) == {prod(a, x0), [k \in 1 .. n |-> One]}

CycleInit ==
    /\ cprm \in [npre : 0 .. MaxRelax, npost : 0 .. MaxRelax,
                 ncycle : 1 .. MaxNcycle, kcycle : 0 .. MaxKcycle]
    /\ \E nl \in 1 .. MaxLevels : lvls = BuildLevels(Poisson(nl), 0, nl)
    /\ vec = BuildVectors(lvls, cprm)
    /\ top_x0 \in StartVectors(n_of(0))
    /\ top_rhs \in RhsVectors(n_of(0), top_x0, lvls[1].A)
    /\ top_x = top_x0
    /\ stack = <<>>
    /\ cpc = "ready"
    /\ log = <<>>
    /\ ret = [fn |-> "none", lvl |-> -1, ops |-> <<>>]

\* a vector argument passed by reference: the caller's (lvl = -1) rhs or x,
\* or the member `name` of level lvl
ExtRef(name) == [lvl |-> -1, name |-> name]

LvlRef(k, name) == [lvl |-> k, name |-> name]

Deref(ref) ==
    IF ref.lvl < 0 THEN (IF ref.name = "x" THEN top_x ELSE top_rhs)
    ELSE vec[ref.lvl + 1][ref.name]

\* v is the new value of vec; xv is written through the reference xref
Commit(xref, xv, v) ==
    IF xref.lvl < 0
    THEN top_x' = xv /\ vec' = v
    ELSE top_x' = top_x /\ vec' = [v EXCEPT ![xref.lvl + 1][xref.name] = xv]

Frame(fn, k, rhsref, xref) ==
    [fn |-> fn, lvl |-> k, pc |-> "enter", j |-> 0, i |-> 0, iter |-> 0,
     rho1 |-> Zero, rho2 |-> Zero, alpha |-> Zero,
     rhs |-> rhsref, x |-> xref, ops |-> <<>>]

Top == stack[Len(stack)]

At(fn, pc) == cpc = "running" /\ Top.fn = fn /\ Top.pc = pc

IsCoarsest(k) == k = NLevels - 1

Did(f, op) == [f EXCEPT !.ops = Append(@, op)]

SetTop(f) == stack' = [stack EXCEPT ![Len(stack)] = f] /\ UNCHANGED <<cpc, ret>>

Push(f, g) ==
    stack' = Append([stack EXCEPT ![Len(stack)] = f], g) /\ UNCHANGED <<cpc, ret>>

Pop(f) ==
    /\ stack' = SubSeq(stack, 1, Len(stack) - 1)
    /\ ret' = [fn |-> f.fn, lvl |-> f.lvl, ops |-> f.ops]
    /\ cpc' = IF Len(stack) = 1 THEN "done" ELSE "running"

Logged(op, k) == log' = Append(log, <<op, k>>)

Fixed == UNCHANGED <<cprm, lvls, top_rhs, top_x0>> /\ UNCHANGED notCycle

\* lines 137-144: relax(rhs, x) leaves t = (rhs - A*x) / d and x + 0.72 * t
relax_t(k, rhsv, xv) ==
    element_div(VSub(rhsv, prod(lvls[k + 1].A, xv)), lvls[k + 1].d)

relax_x(xv, tv) == VAdd(xv, VScale(Omega, tv))

\* the caller of the outermost cycle(lvl = begin, end, prm, rhs, x)
CycleCall ==
    /\ cpc = "ready"
    /\ stack' = <<Frame("cycle", 0, ExtRef("rhs"), ExtRef("x"))>>
    /\ cpc' = "running"
    /\ UNCHANGED <<vec, top_x, log, ret>>
    /\ Fixed

\* lines 160-162, 181-183: nxt == end
CycleCoarsest ==
    /\ At("cycle", "enter")
    /\ IsCoarsest(Top.lvl)
    /\ Commit(Top.x, prod(lvls[Top.lvl + 1].Ainv, Deref(Top.rhs)), vec)
    /\ Logged("direct", Top.lvl)
    /\ Pop(Did(Top, "direct"))
    /\ Fixed

\* lines 160-163: nxt != end, j = 0
CycleBegin ==
    /\ At("cycle", "enter")
    /\ ~IsCoarsest(Top.lvl)
    /\ SetTop([Top EXCEPT !.pc = "head", !.j = 0])
    /\ UNCHANGED <<vec, top_x, log>>
    /\ Fixed

\* line 163, j < prm.ncycle; line 164, i = 0
CycleIter ==
    /\ At("cycle", "head")
    /\ Top.j < cprm.ncycle
    /\ SetTop([Top EXCEPT !.pc = "pre", !.i = 0])
    /\ UNCHANGED <<vec, top_x, log>>
    /\ Fixed

\* line 163, j = prm.ncycle; line 184
CycleReturn ==
    /\ At("cycle", "head")
    /\ Top.j >= cprm.ncycle
    /\ Pop(Top)
    /\ UNCHANGED <<vec, top_x, log>>
    /\ Fixed

\* line 164
PreRelax ==
    /\ At("cycle", "pre")
    /\ Top.i < cprm.npre
    /\ LET tv == relax_t(Top.lvl, Deref(Top.rhs), Deref(Top.x))
       IN  Commit(Top.x, relax_x(Deref(Top.x), tv), [vec EXCEPT ![Top.lvl + 1].t = tv])
    /\ Logged("relax", Top.lvl)
    /\ SetTop(Did([Top EXCEPT !.i = @ + 1], "relax"))
    /\ Fixed

\* lines 166-167
Residual ==
    /\ At("cycle", "pre")
    /\ Top.i >= cprm.npre
    /\ vec' = [vec EXCEPT ![Top.lvl + 1].t =
                   VSub(Deref(Top.rhs), prod(lvls[Top.lvl + 1].A, Deref(Top.x)))]
    /\ Logged("residual", Top.lvl)
    /\ SetTop(Did([Top EXCEPT !.pc = "restrict"], "residual"))
    /\ UNCHANGED top_x
    /\ Fixed

\* line 168
Restrict ==
    /\ At("cycle", "restrict")
    /\ vec' = [vec EXCEPT ![Top.lvl + 2].f = prod(lvls[Top.lvl + 1].R, vec[Top.lvl + 1].t)]
    /\ Logged("restrict", Top.lvl)
    /\ SetTop(Did([Top EXCEPT !.pc = "clear"], "restrict"))
    /\ UNCHANGED top_x
    /\ Fixed

\* line 169: vector::clear() zeroes the entries and keeps the size
ClearUKeep ==
    /\ At("cycle", "clear")
    /\ Logged("clear_u", Top.lvl + 1)
    /\ SetTop(Did([Top EXCEPT !.pc = "descend"], "clear_u"))
    /\ UNCHANGED <<vec, top_x>>
    /\ Fixed

ClearU ==
    /\ At("cycle", "clear")
    /\ vec' = [vec EXCEPT ![Top.lvl + 2].u = Zeros(Len(@))]
    /\ Logged("clear_u", Top.lvl + 1)
    /\ SetTop(Did([Top EXCEPT !.pc = "descend"], "clear_u"))
    /\ UNCHANGED top_x
    /\ Fixed

\* lines 171-172
DescendK ==
    /\ At("cycle", "descend")
    /\ Len(vec[Top.lvl + 2].r) # 0
    /\ Push(Did([Top EXCEPT !.pc = "prolong"], "solve"),
            Frame("kcycle", Top.lvl + 1, LvlRef(Top.lvl + 1, "f"), LvlRef(Top.lvl + 1, "u")))
    /\ UNCHANGED <<vec, top_x, log>>
    /\ Fixed

\* lines 171, 173-174
DescendV ==
    /\ At("cycle", "descend")
    /\ Len(vec[Top.lvl + 2].r) = 0
    /\ Push(Did([Top EXCEPT !.pc = "prolong"], "solve"),
            Frame("cycle", Top.lvl + 1, LvlRef(Top.lvl + 1, "f"), LvlRef(Top.lvl + 1, "u")))
    /\ UNCHANGED <<vec, top_x, log>>
    /\ Fixed

\* lines 176-177; line 179, i = 0
Prolong ==
    /\ At("cycle", "prolong")
    /\ LET tv == prod(lvls[Top.lvl + 1].P, vec[Top.lvl + 2].u)
       IN  Commit(Top.x, VAdd(Deref(Top.x), tv), [vec EXCEPT ![Top.lvl + 1].t = tv])
    /\ Logged("prolong", Top.lvl)
    /\ SetTop(Did([Top EXCEPT !.pc = "post", !.i = 0], "prolong"))
    /\ Fixed

\* line 179
PostRelax ==
    /\ At("cycle", "post")
    /\ Top.i < cprm.npost
    /\ LET tv == relax_t(Top.lvl, Deref(Top.rhs), Deref(Top.x))
       IN  Commit(Top.x, relax_x(Deref(Top.x), tv), [vec EXCEPT ![Top.lvl + 1].t = tv])
    /\ Logged("relax", Top.lvl)
    /\ SetTop(Did([Top EXCEPT !.i = @ + 1], "relax"))
    /\ Fixed

\* line 179, i = prm.npost; line 163, ++j
CycleRepeat ==
    /\ At("cycle", "post")
    /\ Top.i >= cprm.npost
    /\ SetTop([Top EXCEPT !.pc = "head", !.j = @ + 1])
    /\ UNCHANGED <<vec, top_x, log>>
    /\ Fixed

\* lines 190-200, or lines 221-223 when nxt == end
KcycleEnter ==
    /\ At("kcycle", "enter")
    /\ IF IsCoarsest(Top.lvl)
       THEN /\ Commit(Top.x, prod(lvls[Top.lvl + 1].Ainv, Deref(Top.rhs)), vec)
            /\ Logged("direct", Top.lvl)
            /\ Pop(Did(Top, "direct"))
       ELSE /\ vec' = [vec EXCEPT ![Top.lvl + 1].r = Deref(Top.rhs)]
            /\ Logged("k_init", Top.lvl)
            /\ SetTop(Did([Top EXCEPT !.pc = "head", !.rho1 = Zero, !.rho2 = Zero,
                                      !.iter = 0], "init"))
            /\ UNCHANGED top_x
    /\ Fixed

\* line 202, iter < 2; lines 203-204
KcycleIter ==
    /\ At("kcycle", "head")
    /\ Top.iter < 2
    /\ vec' = [vec EXCEPT ![Top.lvl + 1].s = Zeros(Len(@))]
    /\ Logged("k_clear_s", Top.lvl)
    /\ Push(Did(Did([Top EXCEPT !.pc = "rho"], "clear_s"), "cycle"),
            Frame("cycle", Top.lvl, LvlRef(Top.lvl, "r"), LvlRef(Top.lvl, "s")))
    /\ UNCHANGED top_x
    /\ Fixed

\* line 202, iter = 2; line 224
KcycleReturn ==
    /\ At("kcycle", "head")
    /\ Top.iter >= 2
    /\ Pop(Top)
    /\ UNCHANGED <<vec, top_x, log>>
    /\ Fixed

\* lines 206-207
KcycleRho ==
    /\ At("kcycle", "rho")
    /\ SetTop(Did([Top EXCEPT !.pc = "dir", !.rho2 = Top.rho1,
                              !.rho1 = inner_prod(vec[Top.lvl + 1].r, vec[Top.lvl + 1].s)],
                  "rho"))
    /\ Logged("k_rho", Top.lvl)
    /\ UNCHANGED <<vec, top_x>>
    /\ Fixed

\* lines 209, 212
KcycleDirFirst ==
    /\ At("kcycle", "dir")
    /\ Top.iter = 0
    /\ vec' = [vec EXCEPT ![Top.lvl + 1].p = vec[Top.lvl + 1].s]
    /\ Logged("k_dir", Top.lvl)
    /\ SetTop(Did([Top EXCEPT !.pc = "q"], "dir"))
    /\ UNCHANGED top_x
    /\ Fixed

\* lines 209-210
KcycleDirNextRestart ==
    /\ At("kcycle", "dir")
    /\ Top.iter # 0
    /\ vec' = [vec EXCEPT ![Top.lvl + 1].p = vec[Top.lvl + 1].s]
    /\ Logged("k_dir", Top.lvl)
    /\ SetTop(Did([Top EXCEPT !.pc = "q"], "dir"))
    /\ UNCHANGED top_x
    /\ Fixed

KcycleDirNext ==
    /\ At("kcycle", "dir")
    /\ Top.iter # 0
    /\ vec' = [vec EXCEPT ![Top.lvl + 1].p =
                   VAdd(vec[Top.lvl + 1].s, VScale(FDiv(Top.rho1, Top.rho2), @))]
    /\ Logged("k_dir", Top.lvl)
    /\ SetTop(Did([Top EXCEPT !.pc = "q"], "dir"))
    /\ UNCHANGED top_x
    /\ Fixed

\* line 214
KcycleQ ==
    /\ At("kcycle", "q")
    /\ vec' = [vec EXCEPT ![Top.lvl + 1].q = prod(lvls[Top.lvl + 1].A, vec[Top.lvl + 1].p)]
    /\ Logged("k_q", Top.lvl)
    /\ SetTop(Did([Top EXCEPT !.pc = "alpha"], "q"))
    /\ UNCHANGED top_x
    /\ Fixed

\* line 216
KcycleAlpha ==
    /\ At("kcycle", "alpha")
    /\ SetTop(Did([Top EXCEPT !.pc = "x",
                              !.alpha = FDiv(Top.rho1,
                                             inner_prod(vec[Top.lvl + 1].q, vec[Top.lvl + 1].p))],
                  "alpha"))
    /\ Logged("k_alpha", Top.lvl)
    /\ UNCHANGED <<vec, top_x>>
    /\ Fixed

\* line 218
KcycleUpdateX ==
    /\ At("kcycle", "x")
    /\ Commit(Top.x, VAdd(Deref(Top.x), VScale(Top.alpha, vec[Top.lvl + 1].p)), vec)
    /\ Logged("k_x", Top.lvl)
    /\ SetTop(Did([Top EXCEPT !.pc = "r"], "x"))
    /\ Fixed

\* line 219; line 202, ++iter
KcycleUpdateR ==
    /\ At("kcycle", "r")
    /\ vec' = [vec EXCEPT ![Top.lvl + 1].r = VSub(@, VScale(Top.alpha, vec[Top.lvl + 1].q))]
    /\ Logged("k_r", Top.lvl)
    /\ SetTop(Did([Top EXCEPT !.pc = "head", !.iter = @ + 1], "r"))
    /\ UNCHANGED top_x
    /\ Fixed

CycleNext ==
    \/ CycleCall
    \/ CycleCoarsest
    \/ CycleBegin
    \/ CycleIter
    \/ CycleReturn
    \/ PreRelax
    \/ Residual
    \/ Restrict
    \/ ClearU
    \/ DescendK
    \/ DescendV
    \/ Prolong
    \/ PostRelax
    \/ CycleRepeat
    \/ KcycleEnter
    \/ KcycleIter
    \/ KcycleReturn
    \/ KcycleRho
    \/ KcycleDirFirst
    \/ KcycleDirNext
    \/ KcycleQ
    \/ KcycleAlpha
    \/ KcycleUpdateX
    \/ KcycleUpdateR

-----------------------------------------------------------------------------
(* The specifications: one per component.                                  *)

AggIdle ==
    /\ A = EmptyMatrix
    /\ aggr = [count |-> 0, id |-> <<>>]
    /\ over_interp = One
    /\ P = EmptyMatrix
    /\ R = EmptyMatrix
    /\ Ac = EmptyMatrix
    /\ apc = "idle"
    /\ ai = 0

ScotchOff ==
    /\ comm = [size |-> 1, rank |-> 0]
    /\ loc_rows = [r \in {0} |-> 0]
    /\ sprm = [enable |-> FALSE, min_per_proc |-> 1, shrink_ratio |-> 1]
    /\ sc = [ScotchIdle EXCEPT !.pc = "off"]

EigenIdle ==
    /\ eA = EmptyMatrix
    /\ en = 0
    /\ S = [info |-> "none", mat |-> EmptyMatrix]
    /\ epc = "idle"
    /\ ex = <<>>

CycleIdle ==
    /\ cprm = [npre |-> 0, npost |-> 0, ncycle |-> 1, kcycle |-> 0]
    /\ lvls = <<>>
    /\ vec = <<>>
    /\ top_rhs = <<>>
    /\ top_x0 = <<>>
    /\ top_x = <<>>
    /\ stack = <<>>
    /\ cpc = "idle"
    /\ log = <<>>
    /\ ret = [fn |-> "none", lvl |-> -1, ops |-> <<>>]

InitAggregation == AggInit /\ ScotchOff /\ EigenIdle /\ CycleIdle

InitScotch == ScotchInit /\ AggIdle /\ EigenIdle /\ CycleIdle

InitEigen == EigenInit /\ AggIdle /\ ScotchOff /\ CycleIdle

InitCycle == CycleInit /\ AggIdle /\ ScotchOff /\ EigenIdle

SpecAggregation == InitAggregation /\ [][AggNext]_vars

SpecScotch == InitScotch /\ [][ScotchNext]_vars

SpecEigen == InitEigen /\ [][EigenNext]_vars

SpecCycle == InitCycle /\ [][CycleNext]_vars

-----------------------------------------------------------------------------
(* Properties of the cycle engine.                                         *)

IsPrefix(s, t) == Len(s) <= Len(t) /\ SubSeq(t, 1, Len(s)) = s

RECURSIVE Repeat(_, _)
Repeat(s, n) == IF n = 0 THEN <<>> ELSE s \o Repeat(s, n - 1)

DerefNext(ref) ==
    IF ref.lvl < 0 THEN (IF ref.name = "x" THEN top_x' ELSE top_rhs')
    ELSE vec'[ref.lvl + 1][ref.name]

\* the steps of one repetition of the V-cycle body, and of a whole call
OneRepetition ==
    [k \in 1 .. cprm.npre |-> "relax"]
    \o <<"residual", "restrict", "clear_u", "solve", "prolong">>
    \o [k \in 1 .. cprm.npost |-> "relax"]

CyclePattern == Repeat(OneRepetition, cprm.ncycle)

C3_FrameOrder(d) ==
    LET f == stack[d]
        k == f.lvl
    IN  /\ IsPrefix(f.ops, CyclePattern)
        /\ f.pc = "restrict" =>
             vec[k + 1].t = VSub(Deref(f.rhs), prod(lvls[k + 1].A, Deref(f.x)))
        /\ f.pc = "clear" => vec[k + 2].f = prod(lvls[k + 1].R, vec[k + 1].t)
        /\ f.pc = "descend" => vec[k + 2].u = Zeros(n_of(k + 1))
        /\ (f.pc = "prolong" /\ d < Len(stack)) =>
             /\ stack[d + 1].lvl = k + 1
             /\ stack[d + 1].rhs = LvlRef(k + 1, "f")
             /\ stack[d + 1].x = LvlRef(k + 1, "u")
             /\ stack[d + 1].pc = "enter" => vec[k + 2].u = Zeros(n_of(k + 1))
        /\ (f.pc = "post" /\ f.i = 0) =>
             vec[k + 1].t = prod(lvls[k + 1].P, vec[k + 2].u)

C3_State ==
    /\ \A d \in 1 .. Len(stack) :
         (stack[d].fn = "cycle" /\ ~IsCoarsest(stack[d].lvl)) => C3_FrameOrder(d)
    /\ (ret.fn = "cycle" /\ ~IsCoarsest(ret.lvl)) => ret.ops = CyclePattern

C3_Step ==
    (At("cycle", "prolong") /\ Len(stack') = Len(stack)) =>
        DerefNext(Top.x) = VAdd(Deref(Top.x), prod(lvls[Top.lvl + 1].P, vec[Top.lvl + 2].u))

\* C3: every repetition of a cycle call at a non-coarsest level runs npre
\* relaxations, the residual t = rhs - A*x, the restriction f_next = R*t, the
\* reset of u_next to zero, one solve on the next level with (f_next, u_next),
\* the correction x += P*u_next and npost relaxations, in this order, ncycle
\* times; the solve on the next level starts from u_next = 0.
C3_CycleStepOrder == []C3_State /\ [][C3_Step]_vars

\* C3 witness: the outermost cycle call of a hierarchy of three levels has
\* returned after two repetitions with one pre- and one post-relaxation.
C3_Witness ==
    /\ cpc = "done"
    /\ NLevels = 3
    /\ cprm.ncycle = 2 /\ cprm.npre = 1 /\ cprm.npost = 1
    /\ top_x # top_x0

KcyclePattern ==
    <<"init">> \o Repeat(<<"clear_s", "cycle", "rho", "dir", "q", "alpha", "x", "r">>, 2)

C4_Frame(d) ==
    LET f == stack[d]
        w == vec[f.lvl + 1]
    IN  /\ IsPrefix(f.ops, KcyclePattern)
        /\ f.iter <= 2
        /\ (f.pc = "rho" /\ d < Len(stack)) =>
             /\ stack[d + 1].fn = "cycle"
             /\ stack[d + 1].lvl = f.lvl
             /\ stack[d + 1].rhs = LvlRef(f.lvl, "r")
             /\ stack[d + 1].x = LvlRef(f.lvl, "s")
             /\ stack[d + 1].pc = "enter" => w.s = Zeros(n_of(f.lvl))
        /\ f.pc = "dir" => f.rho1 = inner_prod(w.r, w.s)
        /\ (f.pc = "q" /\ f.iter = 0) => w.p = w.s
        /\ f.pc = "alpha" => w.q = prod(lvls[f.lvl + 1].A, w.p)
        /\ f.pc = "x" => f.alpha = FDiv(f.rho1, inner_prod(w.q, w.p))

C4_State ==
    /\ \A d \in 1 .. Len(stack) : stack[d].fn = "kcycle" => C4_Frame(d)
    /\ ret.fn = "kcycle" => ret.ops = KcyclePattern

C4_Step ==
    LET w == vec[Top.lvl + 1]
    IN  /\ At("kcycle", "rho") /\ Len(stack') = Len(stack) =>
             stack'[Len(stack)].rho2 = Top.rho1
        /\ At("kcycle", "dir") /\ Top.iter # 0 =>
             vec'[Top.lvl + 1].p = VAdd(w.s, VScale(FDiv(Top.rho1, Top.rho2), w.p))
        /\ At("kcycle", "x") =>
             DerefNext(Top.x) = VAdd(Deref(Top.x), VScale(Top.alpha, w.p))
        /\ At("kcycle", "r") =>
             vec'[Top.lvl + 1].r = VSub(w.r, VScale(Top.alpha, w.q))

\* C4: every kcycle call performs exactly two inner iterations; each one
\* applies cycle once on the same level to r from s = 0, sets rho = <r,s>,
\* takes p = s (first) or p = s + (rho_new/rho_old)*p (second), q = A*p,
\* alpha = rho/<q,p>, x += alpha*p and r -= alpha*q; it never returns earlier
\* and never runs a third iteration.
C4_KcycleTwoIterations == []C4_State /\ [][C4_Step]_vars

VecFinite(v) == \A k \in 1 .. Len(v) : IsFinite(v[k])

\* C4 witness: a kcycle call has returned with a finite, nonzero result.
C4_Witness ==
    /\ ret.fn = "kcycle"
    /\ VecFinite(vec[ret.lvl + 1].u)
    /\ vec[ret.lvl + 1].u # Zeros(n_of(ret.lvl))
    /\ vec[ret.lvl + 1].p # vec[ret.lvl + 1].s

\* the operations of a V-cycle that has no K-cycle branch, from level k down
RECURSIVE PlainV(_)
PlainV(k) ==
    IF IsCoarsest(k) THEN << <<"direct", k>> >>
    ELSE Repeat([i \in 1 .. cprm.npre |-> <<"relax", k>>]
                \o << <<"residual", k>>, <<"restrict", k>>, <<"clear_u", k + 1>> >>
                \o PlainV(k + 1)
                \o << <<"prolong", k>> >>
                \o [i \in 1 .. cprm.npost |-> <<"relax", k>>],
                cprm.ncycle)

\* the x such a V-cycle leaves
RECURSIVE RelaxN(_, _, _, _)
RelaxN(k, rhsv, xv, n) ==
    IF n = 0 THEN xv
    ELSE RelaxN(k, rhsv, relax_x(xv, relax_t(k, rhsv, xv)), n - 1)

RECURSIVE PlainVx(_, _, _, _)
PlainVx(k, rhsv, xv, j) ==
    IF IsCoarsest(k) THEN prod(lvls[k + 1].Ainv, rhsv)
    ELSE IF j = 0 THEN xv
    ELSE LET x1 == RelaxN(k, rhsv, xv, cprm.npre)
             fn == prod(lvls[k + 1].R, VSub(rhsv, prod(lvls[k + 1].A, x1)))
             un == PlainVx(k + 1, fn, Zeros(n_of(k + 1)), cprm.ncycle)
             x2 == VAdd(x1, prod(lvls[k + 1].P, un))
         IN  PlainVx(k, rhsv, RelaxN(k, rhsv, x2, cprm.npost), j - 1)

\* C5: with kcycle = 0 no level has its K-cycle vectors sized, kcycle is never
\* entered, and the call performs exactly the operations of the plain
\* V-cycle and leaves the same x.
C5_KcycleZeroIsPlainV ==
    cprm.kcycle = 0 =>
        /\ \A k \in 1 .. Len(vec) :
             Len(vec[k].r) = 0 /\ Len(vec[k].s) = 0 /\ Len(vec[k].p) = 0 /\ Len(vec[k].q) = 0
        /\ \A d \in 1 .. Len(stack) : stack[d].fn # "kcycle"
        /\ ret.fn # "kcycle"
        /\ IsPrefix(log, PlainV(0))
        /\ cpc = "done" =>
             /\ log = PlainV(0)
             /\ top_x = PlainVx(0, top_rhs, top_x0, cprm.ncycle)

\* C5 witness: a cycle over three levels has finished with kcycle = 0.
C5_Witness ==
    /\ cpc = "done"
    /\ cprm.kcycle = 0
    /\ NLevels = 3
    /\ cprm.ncycle = 2 /\ cprm.npre = 1 /\ cprm.npost = 1
    /\ top_x # top_x0

ExactStart == prod(lvls[1].A, top_x0) = top_rhs

NoUndefinedValue ==
    /\ VecFinite(top_x)
    /\ \A k \in 1 .. Len(vec) :
         \A nm \in {"u", "f", "t", "r", "s", "p", "q"} : VecFinite(vec[k][nm])
    /\ \A d \in 1 .. Len(stack) :
         IsFinite(stack[d].rho1) /\ IsFinite(stack[d].rho2) /\ IsFinite(stack[d].alpha)

\* C6: from the exact solution, whatever the cycle configuration, no step
\* produces an undefined value and the finished cycle leaves x as it was.
C6_ExactSolutionIsFixed ==
    ExactStart =>
        /\ NoUndefinedValue
        /\ cpc = "done" => top_x = top_x0

\* level k is one that the rule gives to kcycle
KLevel(k) ==
    /\ 1 <= k /\ k < NLevels - 1
    /\ cprm.kcycle > 0
    /\ k % cprm.kcycle = 0

C12_Frame(d) ==
    LET f == stack[d]
        k == f.lvl
    IN  /\ d = 1 => (f.fn = "cycle" /\ k = 0)
        /\ d > 1 =>
             IF stack[d - 1].fn = "kcycle"
             THEN f.fn = "cycle" /\ k = stack[d - 1].lvl
             ELSE k = stack[d - 1].lvl + 1 /\ (f.fn = "kcycle" <=> KLevel(k))
        /\ f.fn = "kcycle" => KLevel(k)
        /\ IsCoarsest(k) =>
             /\ f.fn = "cycle"
             /\ f.pc = "enter"
             /\ f.ops = <<>>

\* C12: a cycle call started at level 0 handles the coarsest level by the
\* direct solve x = Ainv*rhs alone, a level k with 1 <= k < L-1 by kcycle
\* exactly when kcycle > 0 and k mod kcycle = 0, and every other level by the
\* V-cycle body; a finished call has done the direct solve at the coarsest
\* level, and with one level the direct solve is all it has done.
C12_LevelRule ==
    /\ \A d \in 1 .. Len(stack) : C12_Frame(d)
    /\ (ret.fn # "none" /\ IsCoarsest(ret.lvl)) =>
           (ret.fn = "cycle" /\ ret.ops = <<"direct">>)
    /\ ret.fn = "kcycle" => KLevel(ret.lvl)
    /\ \A i \in 1 .. Len(log) :
         LET op == log[i][1]
             k  == log[i][2]
         IN  /\ op = "direct" <=> (IsCoarsest(k) /\ op # "clear_u")
             /\ op \in {"k_init", "k_clear_s", "k_rho", "k_dir", "k_q", "k_alpha", "k_x", "k_r"}
                  => KLevel(k)
    /\ cpc = "done" =>
         /\ \E i \in 1 .. Len(log) : log[i] = <<"direct", NLevels - 1>>
         /\ NLevels = 1 => log = << <<"direct", 0>> >>
         /\ \A k \in 1 .. NLevels - 2 :
              KLevel(k) <=> \E i \in 1 .. Len(log) : log[i] = <<"k_init", k>>

\* C12 witness: a finished call over three levels in which level 1 was not
\* given to kcycle although kcycle is on (kcycle = 2).
C12_Witness ==
    /\ cpc = "done"
    /\ NLevels = 3
    /\ cprm.kcycle = 2
    /\ \E i \in 1 .. Len(log) : log[i] = <<"relax", 1>>
    /\ \E i \in 1 .. Len(log) : log[i] = <<"direct", 2>>

=============================================================================
